---- MODULE Spec2Model ----
(***************************************************************************)
(* NE-NOORE Tool (Blender add-on), src/ne_noore_tool.py.                    *)
(*                                                                         *)
(* The model covers the "Turbo Texture Finder" operator                     *)
(* NENOORE_OT_find_missing_files_recursive.execute: validation of the       *)
(* search directory, the call of the host's built-in finder, the selection  *)
(* of the still-missing images, the directory walk that builds file_map,    *)
(* the per-image matching loop and the final report (Spec); the Portal      *)
(* Creator operators that add to, reset and copy the stored portal          *)
(* coordinates (SpecPortal); and "Prepare Vanilla Objects",                 *)
(* NENOORE_OT_prepare_vanilla.execute (SpecPrepare).                        *)
(*                                                                         *)
(* Paths and filenames are sequences of one-character strings, so that      *)
(* str.lower, os.path.basename, os.path.splitext, os.path.join,             *)
(* bpy.path.abspath and bpy.path.relpath are computed, not assumed.         *)
(* The file system is POSIX-like: "/" separates, names are case-sensitive.  *)
(***************************************************************************)
EXTENDS Integers, Sequences, FiniteSets, TLC

\* ------------------------------------------------------------------ bounds
\* Largest number of images (asset references) in bpy.data.images.
MaxImages == 2

\* ------------------------------------------------------------ text helpers
SEP == "/"
EXTSEP == "."
Empty == << >>
\* The value of dict.get on a miss, and of an unset candidate.
None == << "<None>" >>

\* str.lower on one character of the model's alphabet.
LowerChar(c) ==
    CASE c = "A" -> "a"
      [] c = "P" -> "p"
      [] c = "Q" -> "q"
      [] OTHER -> c

\* str.lower
Lower(s) == [i \in 1..Len(s) |-> LowerChar(s[i])]

\* str.rfind, 1-based, 0 when absent.
RFind(s, c) ==
    LET I == {i \in 1..Len(s) : s[i] = c}
    IN  IF I = {} THEN 0 ELSE CHOOSE i \in I : \A j \in I : j <= i

\* str.find, 1-based, 0 when absent.
Find(s, c) ==
    LET I == {i \in 1..Len(s) : s[i] = c}
    IN  IF I = {} THEN 0 ELSE CHOOSE i \in I : \A j \in I : i <= j

\* str.startswith
StartsWith(s, pre) ==
    /\ Len(pre) <= Len(s)
    /\ SubSeq(s, 1, Len(pre)) = pre

\* os.path.basename (posixpath): the text after the last separator.
Basename(p) == SubSeq(p, RFind(p, SEP) + 1, Len(p))

\* os.path.splitext (genericpath._splitext): split at the last dot that
\* follows the last separator, unless only dots precede it in the filename.
Splitext(p) ==
    LET sepIndex == RFind(p, SEP)
        dotIndex == RFind(p, EXTSEP)
    IN  IF /\ dotIndex > sepIndex
           /\ \E k \in (sepIndex + 1)..(dotIndex - 1) : p[k] # EXTSEP
        THEN << SubSeq(p, 1, dotIndex - 1), SubSeq(p, dotIndex, Len(p)) >>
        ELSE << p, Empty >>

\* os.path.join(a, b) (posixpath)
Join(a, b) ==
    IF StartsWith(b, <<SEP>>) THEN b
    ELSE IF a = Empty \/ a[Len(a)] = SEP THEN a \o b
    ELSE a \o <<SEP>> \o b

\* str.split(sep)
RECURSIVE Split(_)
Split(p) ==
    LET i == Find(p, SEP)
    IN  IF i = 0 THEN << p >>
        ELSE << SubSeq(p, 1, i - 1) >> \o Split(SubSeq(p, i + 1, Len(p)))

\* sep.join(list)
RECURSIVE JoinAll(_)
JoinAll(l) ==
    IF l = << >> THEN Empty
    ELSE IF Len(l) = 1 THEN l[1]
    ELSE l[1] \o <<SEP>> \o JoinAll(Tail(l))

\* The component stack of posixpath.normpath after reading comps.
RECURSIVE NormComps(_, _, _)
NormComps(comps, acc, absolute) ==
    IF comps = << >> THEN acc
    ELSE LET c == Head(comps)
             dotdot == << ".", "." >>
         IN  IF c = Empty \/ c = << "." >>
             THEN NormComps(Tail(comps), acc, absolute)
             ELSE IF \/ c # dotdot
                     \/ (~absolute /\ acc = << >>)
                     \/ (acc # << >> /\ acc[Len(acc)] = dotdot)
             THEN NormComps(Tail(comps), Append(acc, c), absolute)
             ELSE IF acc # << >>
             THEN NormComps(Tail(comps), SubSeq(acc, 1, Len(acc) - 1), absolute)
             ELSE NormComps(Tail(comps), acc, absolute)

\* posixpath.normpath for absolute paths with one leading separator.
Normpath(p) ==
    LET absolute == StartsWith(p, <<SEP>>)
        body == JoinAll(NormComps(Split(p), << >>, absolute))
    IN  IF absolute THEN <<SEP>> \o body
        ELSE IF body = Empty THEN << "." >> ELSE body

\* ------------------------------------------------------- the file system
\* The directory the user points the operator at, and one sub-directory.
Root == << "/", "r" >>
SubDir == << "/", "r", "/", "d" >>
\* A path that does not exist, and the directory of the saved .blend file.
NoSuchDir == << "/", "n" >>
BlendDir == << "/", "b" >>

NameLowerP == << "a", ".", "p" >>
NameUpperP == << "A", ".", "P" >>
NameLowerQ == << "a", ".", "q" >>

\* The directories that exist under (and including) the root.
Directories == { Root, SubDir }
\* The files that may lie under the root, each a directory path and a
\* filename in it: two names that differ by extension only in the root, and
\* in the sub-directory a name that differs from one of them by case only
\* and a name equal to the other.
FileUniverse ==
    { [dirpath |-> Root, filename |-> NameLowerP],
      [dirpath |-> Root, filename |-> NameLowerQ],
      [dirpath |-> SubDir, filename |-> NameUpperP],
      [dirpath |-> SubDir, filename |-> NameLowerQ] }

\* The place of a file in the listing of os.walk: top-down, it lists the
\* files of the root before those of a sub-directory; inside one directory
\* the order is the OS's, taken here to be by lowercase name.
WalkRank(f) ==
    (IF f.dirpath = Root THEN 0 ELSE 2)
      + (IF Lower(f.filename) = NameLowerP THEN 1 ELSE 2)

WalkOrdered(t) ==
    \A i, j \in 1..Len(t) : i < j => WalkRank(t[i]) < WalkRank(t[j])

Trees ==
    { t \in UNION { [1..n -> FileUniverse] : n \in 0..Cardinality(FileUniverse) } :
        WalkOrdered(t) }

\* The image datablocks the host may hold: filepath and packed_file.
\* Five paths outside the root, which never exist (a name in capitals, which
\* one file may have as written and another in lowercase, the same name in
\* a mix of cases that no file has as written, a name without extension, a
\* name no file has in any form, the name of a packed image), and one inside
\* it, which exists when the tree holds it.
MissingUpper == << "/", "x", "/", "A", ".", "P" >>
MissingMixed == << "/", "x", "/", "a", ".", "P" >>
MissingNoExt == << "/", "x", "/", "a" >>
MissingOther == << "/", "x", "/", "b", ".", "p" >>
MissingLowerP == << "/", "x", "/", "a", ".", "p" >>
InSubDirQ == << "/", "r", "/", "d", "/", "a", ".", "q" >>

ImageUniverse ==
    { [filepath |-> MissingUpper, packed |-> FALSE],
      [filepath |-> MissingMixed, packed |-> FALSE],
      [filepath |-> MissingNoExt, packed |-> FALSE],
      [filepath |-> MissingOther, packed |-> FALSE],
      [filepath |-> InSubDirQ, packed |-> FALSE],
      [filepath |-> MissingLowerP, packed |-> TRUE],
      [filepath |-> Empty, packed |-> FALSE] }

ImageLists == UNION { [1..n -> ImageUniverse] : n \in 0..MaxImages }

\* The values the operator's directory property may hold: unset, the root,
\* its sub-directory, a path that does not exist, and the path of a regular
\* file.
DirectoryInputs == { Empty, Root, SubDir, NoSuchDir, Join(Root, NameLowerP) }

\* ------------------------------------------------------ host path helpers
\* bpy.path.abspath: a "//" prefix means relative to the .blend directory.
Abspath(p) ==
    IF StartsWith(p, << SEP, SEP >>)
    THEN Join(BlendDir, SubSeq(p, 3, Len(p)))
    ELSE p

\* [x for x in abspath(p).split(sep) if x]
Components(p) == SelectSeq(Split(Normpath(p)), LAMBDA c : c # Empty)

\* Length of the common prefix of two component lists.
RECURSIVE CommonLen(_, _)
CommonLen(a, b) ==
    IF a = << >> \/ b = << >> \/ Head(a) # Head(b) THEN 0
    ELSE 1 + CommonLen(Tail(a), Tail(b))

\* os.path.relpath(path, start) (posixpath)
OsRelpath(path, start) ==
    LET start_list == Components(start)
        path_list == Components(path)
        i == CommonLen(start_list, path_list)
        ups == [k \in 1..(Len(start_list) - i) |-> << ".", "." >>]
        rel_list == ups \o SubSeq(path_list, i + 1, Len(path_list))
    IN  IF rel_list = << >> THEN << "." >> ELSE JoinAll(rel_list)

\* bpy.path.relpath(candidate) inside its try/except: the "//"-relative
\* form, or the candidate itself when os.path.relpath raises (the file lies
\* on another drive than the .blend file).
Relp(candidate, drive_ok) ==
    IF drive_ok
    THEN << SEP, SEP >> \o OsRelpath(candidate, BlendDir)
    ELSE candidate

\* NewFilepath that never takes the relative form.
NewFilepathAbsoluteOnly(candidate, drive_ok) == candidate

\* The value assigned to image.filepath.
NewFilepath(candidate, drive_ok) ==
    LET relp == Relp(candidate, drive_ok)
    IN  IF StartsWith(relp, << SEP, SEP >>) THEN relp ELSE candidate

\* The paths of the files of a tree.
FilePaths(t) == { Join(t[i].dirpath, t[i].filename) : i \in 1..Len(t) }

\* os.path.exists: the path, resolved by the OS, names a file or directory.
Exists(t, p) ==
    /\ p # Empty
    /\ Normpath(p) \in FilePaths(t) \cup Directories \cup { BlendDir }

\* os.path.isdir
IsDir(p) ==
    /\ p # Empty
    /\ Normpath(p) \in Directories \cup { BlendDir }

\* Whether a recursive listing of search_dir reaches the directory dirpath.
Reaches(search_dir, dirpath) ==
    /\ IsDir(search_dir)
    /\ \/ dirpath = search_dir
       \/ StartsWith(dirpath, search_dir \o << SEP >>)

\* The (dirpath, filename) pairs os.walk(search_dir) yields, in its order.
Walk(t, search_dir) == SelectSeq(t, LAMBDA f : Reaches(search_dir, f.dirpath))

\* ------------------------------------------------------------ the matcher
\* DirectoryError without the os.path.isdir test.
DirectoryErrorUnsetOnly(dir) ==
    IF dir = Empty THEN "no_directory" ELSE "ok"

\* The validation of the directory property before anything is attempted.
DirectoryError(dir) ==
    IF dir = Empty THEN "no_directory"
    ELSE IF ~IsDir(Abspath(dir)) THEN "not_a_directory"
    ELSE "ok"

\* The filter that selects the images still missing.
IsMissing(t, img) ==
    /\ img.filepath # Empty
    /\ ~img.packed
    /\ ~Exists(t, Abspath(img.filepath))

\* missing_images, as indices into bpy.data.images, in its order.
MissingImages(t, imgs) ==
    SelectSeq([i \in 1..Len(imgs) |-> i], LAMBDA i : IsMissing(t, imgs[i]))

\* Key without the lowercasing.
KeyAsWritten(filename) == filename

\* key = filename.lower()
Key(filename) == Lower(filename)

\* dict.get on file_map (a sequence of entries in insertion order).
MapGet(fm, key) ==
    IF \E i \in 1..Len(fm) : fm[i].key = key
    THEN fm[CHOOSE i \in 1..Len(fm) : fm[i].key = key].path
    ELSE None

\* MapPut that lets a later file of the same key replace the entry.
MapPutLastWins(fm, dirpath, filename) ==
    LET key == Key(filename)
        entry == [key |-> key, path |-> Join(dirpath, filename)]
    IN  IF MapGet(fm, key) = None
        THEN Append(fm, entry)
        ELSE [i \in 1..Len(fm) |-> IF fm[i].key = key THEN entry ELSE fm[i]]

\* MapPut behind a filter that admits one extension only.
MapPutFiltered(fm, dirpath, filename) ==
    LET key == Key(filename)
    IN  IF Splitext(key)[2] = << ".", "p" >> /\ MapGet(fm, key) = None
        THEN Append(fm, [key |-> key, path |-> Join(dirpath, filename)])
        ELSE fm

\* if key not in file_map: file_map[key] = os.path.join(dirpath, filename)
MapPut(fm, dirpath, filename) ==
    LET key == Key(filename)
    IN  IF MapGet(fm, key) = None
        THEN Append(fm, [key |-> key, path |-> Join(dirpath, filename)])
        ELSE fm

\* The two nested loops over os.walk(search_dir).
RECURSIVE BuildFileMap(_, _)
BuildFileMap(walk, fm) ==
    IF walk = << >> THEN fm
    ELSE BuildFileMap(Tail(walk), MapPut(fm, Head(walk).dirpath, Head(walk).filename))

\* MissingFilename without the lowercasing.
MissingFilenameAsWritten(raw_path) == Basename(raw_path)

\* missing_filename = os.path.basename(raw_path).lower()
MissingFilename(raw_path) == Lower(Basename(raw_path))

\* Fallback that compares the whole key with the stripped missing filename.
FallbackWholeKey(fm, missing_filename) ==
    LET name_no_ext == Splitext(missing_filename)[1]
        hits == { i \in 1..Len(fm) : fm[i].key = name_no_ext }
    IN  IF hits = {} THEN None
        ELSE fm[CHOOSE i \in hits : \A j \in hits : i <= j].path

\* The fallback loop: the first entry, in file_map's iteration order, whose
\* key without extension equals the missing filename without extension.
Fallback(fm, missing_filename) ==
    LET name_no_ext == Splitext(missing_filename)[1]
        hits == { i \in 1..Len(fm) : Splitext(fm[i].key)[1] = name_no_ext }
    IN  IF hits = {} THEN None
        ELSE fm[CHOOSE i \in hits : \A j \in hits : i <= j].path

\* FindCandidate that scans by extension-stripped name before the lookup.
FindCandidateScanFirst(fm, missing_filename) ==
    LET candidate == Fallback(fm, missing_filename)
    IN  IF candidate = None
        THEN [path |-> MapGet(fm, missing_filename), scanned |-> FALSE]
        ELSE [path |-> candidate, scanned |-> TRUE]

\* candidate = file_map.get(missing_filename); if not candidate: fallback.
\* scanned tells whether the fallback branch was entered.
FindCandidate(fm, missing_filename) ==
    LET candidate == MapGet(fm, missing_filename)
    IN  IF candidate = None
        THEN [path |-> Fallback(fm, missing_filename), scanned |-> TRUE]
        ELSE [path |-> candidate, scanned |-> FALSE]

\* CountAfter with the increment outside "if candidate:".
CountAfterAlways(count, candidate) == count + 1

\* relinked_count += 1, inside "if candidate:".
CountAfter(count, candidate) ==
    IF candidate # None THEN count + 1 ELSE count

\* NextIndex of a loop that stops at the first image without a match.
NextIndexStopOnMiss(i, candidate) ==
    IF candidate = None THEN MaxImages + 1 ELSE i + 1

\* The for loop moves to the next missing image whatever the body did.
NextIndex(i, candidate) == i + 1

\* ------------------------------------------------------------------ state
VARIABLES
    tree,            \* the files under the root, as os.walk lists them
    images,          \* bpy.data.images: filepath and packed_file of each
    pc,              \* where execute stands: idle, builtin, collect, walk, loop
    directory,       \* self.directory of the running / last invocation
    drive_ok,        \* whether bpy.path.relpath can express files of the root
    missing_images,  \* the list built before the walk (indices into images)
    file_map,        \* the index built by the walk, in insertion order
    relinked_count,  \* the counter of the matching loop
    idx,             \* position of the for loop in missing_images
    report,          \* the last self.report of the invocation
    result,          \* the set execute returned: CANCELLED or FINISHED
    pre_images,      \* images when execute was entered
    cand_images,     \* images when missing_images was built
    outcomes,        \* per processed missing image: what the loop body did
    walked,          \* whether os.walk was started in this invocation
    \* the Portal Creator operators
    nenoore_portal_coords,  \* scene.nenoore_portal_coords, a list of coords
    clipboard,       \* window_manager.clipboard as the portal operators set it
    portal_op,       \* the portal operator that ran last, with its input
    portal_before,   \* nenoore_portal_coords when that operator began
    portal_report,   \* its self.report
    portal_result,   \* the set it returned
    \* Prepare Vanilla Objects
    objects,         \* bpy.data.objects: name -> type, parent, data, select
    active_object,   \* view_layer.objects.active, as a name
    remove_parent,   \* the operator's property, for the running invocation
    sel,             \* context.selected_objects[:], as names
    sel_idx,         \* position of "for obj in sel"
    prepared,        \* the counter
    prepare_pc,      \* where execute stands: idle, loop
    prepare_report,  \* its self.report
    prepare_result,  \* the set it returned, or RAISED for an exception
    entry_objects    \* bpy.data.objects when execute was entered

relink_vars == << tree, images, pc, directory, drive_ok, missing_images,
                  file_map, relinked_count, idx, report, result, pre_images,
                  cand_images, outcomes, walked >>

portal_vars == << nenoore_portal_coords, clipboard, portal_op, portal_before,
                  portal_report, portal_result >>

prepare_vars == << objects, active_object, remove_parent, sel, sel_idx, prepared, prepare_pc,
                   prepare_report, prepare_result, entry_objects >>

vars == << relink_vars, portal_vars, prepare_vars >>

NoReport == [level |-> "NONE", msg |-> "none", args |-> << >>]

\* No portal operator has run: the collection property is empty.
PortalStart ==
    /\ nenoore_portal_coords = << >>
    /\ clipboard = << >>
    /\ portal_op = [name |-> "none", obj |-> << >>, index |-> 0]
    /\ portal_before = << >>
    /\ portal_report = NoReport
    /\ portal_result = "NONE"

\* Prepare Vanilla Objects has not run, over the scene objs.
PrepareStart(objs) ==
    /\ objects = objs
    /\ active_object = ""
    /\ remove_parent = FALSE
    /\ sel = << >>
    /\ sel_idx = 0
    /\ prepared = 0
    /\ prepare_pc = "idle"
    /\ prepare_report = NoReport
    /\ prepare_result = "NONE"
    /\ entry_objects = objs

\* The Turbo Texture Finder has not run, with no image and no file.
RelinkStart ==
    /\ tree = << >>
    /\ images = << >>
    /\ pc = "idle"
    /\ directory = Empty
    /\ drive_ok = TRUE
    /\ missing_images = << >>
    /\ file_map = << >>
    /\ relinked_count = 0
    /\ idx = 0
    /\ report = NoReport
    /\ result = "NONE"
    /\ pre_images = << >>
    /\ cand_images = << >>
    /\ outcomes = << >>
    /\ walked = FALSE

\* A scene without objects.
NoObjects == << >>

Init ==
    /\ tree \in Trees
    /\ images \in ImageLists
    /\ pc = "idle"
    /\ directory = Empty
    /\ drive_ok = TRUE
    /\ missing_images = << >>
    /\ file_map = << >>
    /\ relinked_count = 0
    /\ idx = 0
    /\ report = NoReport
    /\ result = "NONE"
    /\ pre_images = images
    /\ cand_images = images
    /\ outcomes = << >>
    /\ walked = FALSE
    /\ PortalStart
    /\ PrepareStart(NoObjects)

\* Execute of an operator that keeps file_map between invocations.
ExecuteKeepingIndex(dir) ==
    /\ pc = "idle"
    /\ directory' = dir
    /\ drive_ok' = TRUE
    /\ pre_images' = images
    /\ cand_images' = images
    /\ missing_images' = << >>
    /\ relinked_count' = 0
    /\ idx' = 0
    /\ outcomes' = << >>
    /\ walked' = FALSE
    /\ IF DirectoryError(dir) = "ok"
       THEN /\ pc' = "builtin"
            /\ report' = NoReport
            /\ result' = "RUNNING"
       ELSE /\ pc' = "idle"
            /\ report' = [level |-> "ERROR", msg |-> DirectoryError(dir), args |-> << >>]
            /\ result' = "CANCELLED"
    /\ UNCHANGED << tree, images, file_map >>
    /\ UNCHANGED << portal_vars, prepare_vars >>

\* execute is entered with the directory property set to dir: the locals of
\* the previous invocation are gone, and the directory is validated.
Execute(dir) ==
    /\ pc = "idle"
    /\ directory' = dir
    /\ drive_ok' = TRUE
    /\ pre_images' = images
    /\ cand_images' = images
    /\ missing_images' = << >>
    /\ file_map' = << >>
    /\ relinked_count' = 0
    /\ idx' = 0
    /\ outcomes' = << >>
    /\ walked' = FALSE
    /\ IF DirectoryError(dir) = "ok"
       THEN /\ pc' = "builtin"
            /\ report' = NoReport
            /\ result' = "RUNNING"
       ELSE /\ pc' = "idle"
            /\ report' = [level |-> "ERROR", msg |-> DirectoryError(dir), args |-> << >>]
            /\ result' = "CANCELLED"
    /\ UNCHANGED << tree, images >>
    /\ UNCHANGED << portal_vars, prepare_vars >>

\* The images the host's finder visits. It is called with find_all=True, so
\* it also visits images whose file exists. Packed images and images without
\* a path are taken to be left alone by it.
BuiltinVisits(img) == img.filepath # Empty /\ ~img.packed

\* The files the host's finder can pick for an image: those under the
\* search directory whose name equals the basename of the image's path.
BuiltinFound(t, search_dir, img) ==
    IF ~BuiltinVisits(img) THEN {}
    ELSE { Join(t[i].dirpath, t[i].filename) : i \in
             { i \in 1..Len(t) :
                 /\ Reaches(search_dir, t[i].dirpath)
                 /\ t[i].filename = Basename(Abspath(img.filepath)) } }

\* The path the host's finder writes: relative if the old one was.
BuiltinPath(old, found) ==
    IF StartsWith(old, << SEP, SEP >>)
    THEN << SEP, SEP >> \o OsRelpath(found, BlendDir)
    ELSE found

\* What the host's finder may leave in bpy.data.images when it completes:
\* every image for which it finds a file of the same name is rewritten to
\* such a file (which one, among several of that name, is the host's
\* choice); the others are left as they are.
RECURSIVE BuiltinOutcomes(_, _, _)
BuiltinOutcomes(t, search_dir, imgs) ==
    IF imgs = << >> THEN { << >> }
    ELSE LET img == Head(imgs)
             found == BuiltinFound(t, search_dir, img)
             heads == IF found = {} THEN { img }
                      ELSE { [img EXCEPT !.filepath = BuiltinPath(@, f)] : f \in found }
         IN  { << h >> \o rest :
                 h \in heads, rest \in BuiltinOutcomes(t, search_dir, Tail(imgs)) }

\* bpy.ops.file.find_missing_files(directory=search_dir, find_all=True) in
\* its try/except: either it raises and changes nothing, or it completes.
BuiltinFindMissingFiles ==
    /\ pc = "builtin"
    /\ \/ images' = images
       \/ images' \in BuiltinOutcomes(tree, Abspath(directory), images)
    /\ pc' = "collect"
    /\ UNCHANGED << tree, directory, drive_ok, missing_images, file_map,
                    relinked_count, idx, report, result, pre_images,
                    cand_images, outcomes, walked >>
    /\ UNCHANGED << portal_vars, prepare_vars >>

\* missing_images is built; with none, execute reports and finishes.
CollectMissing ==
    /\ pc = "collect"
    /\ missing_images' = MissingImages(tree, images)
    /\ cand_images' = images
    /\ IF missing_images' = << >>
       THEN /\ report' = [level |-> "INFO", msg |-> "no_missing", args |-> << >>]
            /\ result' = "FINISHED"
            /\ pc' = "idle"
       ELSE /\ pc' = "walk"
            /\ UNCHANGED << report, result >>
    /\ UNCHANGED << tree, images, directory, drive_ok, file_map, relinked_count,
                    idx, pre_images, outcomes, walked >>
    /\ UNCHANGED << portal_vars, prepare_vars >>

\* The walk of search_dir builds file_map; the loop counter starts at 0.
\* drive tells whether the files of the root lie on the drive of the .blend
\* file; the loop that follows is the first to depend on it.
WalkDirectory(drive) ==
    /\ pc = "walk"
    /\ drive_ok' = drive
    /\ file_map' = BuildFileMap(Walk(tree, Abspath(directory)), << >>)
    /\ walked' = TRUE
    /\ relinked_count' = 0
    /\ idx' = 1
    /\ pc' = "loop"
    /\ UNCHANGED << tree, images, directory, missing_images, report,
                    result, pre_images, cand_images, outcomes >>
    /\ UNCHANGED << portal_vars, prepare_vars >>

\* RelinkImage with an index that gives each entry away once: the entry of
\* a matched path is dropped from file_map.
RelinkImageConsuming ==
    /\ pc = "loop"
    /\ idx <= Len(missing_images)
    /\ LET image == missing_images[idx]
           missing_filename == MissingFilename(images[image].filepath)
           found == FindCandidate(file_map, missing_filename)
           candidate == found.path
       IN  /\ images' = IF candidate # None
                        THEN [images EXCEPT ![image].filepath =
                                 NewFilepath(candidate, drive_ok)]
                        ELSE images
           /\ file_map' = SelectSeq(file_map, LAMBDA e : e.path # candidate)
           /\ relinked_count' = CountAfter(relinked_count, candidate)
           /\ outcomes' = Append(outcomes,
                 [image |-> image, missing_filename |-> missing_filename,
                  candidate |-> candidate, scanned |-> found.scanned,
                  counted |-> relinked_count' > relinked_count])
           /\ idx' = NextIndex(idx, candidate)
    /\ UNCHANGED << tree, pc, directory, drive_ok, missing_images,
                    report, result, pre_images, cand_images, walked >>
    /\ UNCHANGED << portal_vars, prepare_vars >>

\* One iteration of "for image in missing_images". The assignment to
\* image.filepath and image.reload() are host calls that complete; the
\* except branch that closes the body only prints and continues.
RelinkImage ==
    /\ pc = "loop"
    /\ idx <= Len(missing_images)
    /\ LET image == missing_images[idx]
           missing_filename == MissingFilename(images[image].filepath)
           found == FindCandidate(file_map, missing_filename)
           candidate == found.path
       IN  /\ images' = IF candidate # None
                        THEN [images EXCEPT ![image].filepath =
                                 NewFilepath(candidate, drive_ok)]
                        ELSE images
           /\ relinked_count' = CountAfter(relinked_count, candidate)
           /\ outcomes' = Append(outcomes,
                 [image |-> image, missing_filename |-> missing_filename,
                  candidate |-> candidate, scanned |-> found.scanned,
                  counted |-> relinked_count' > relinked_count])
           /\ idx' = NextIndex(idx, candidate)
    /\ UNCHANGED << tree, pc, directory, drive_ok, missing_images, file_map,
                    report, result, pre_images, cand_images, walked >>
    /\ UNCHANGED << portal_vars, prepare_vars >>

\* After the loop: the INFO or WARNING report, and FINISHED.
ReportResult ==
    /\ pc = "loop"
    /\ idx > Len(missing_images)
    /\ report' = IF relinked_count > 0
                 THEN [level |-> "INFO", msg |-> "relinked",
                       args |-> << relinked_count, Len(missing_images) >>]
                 ELSE [level |-> "WARNING", msg |-> "no_matches",
                       args |-> << Len(missing_images) >>]
    /\ result' = "FINISHED"
    /\ pc' = "idle"
    /\ UNCHANGED << tree, images, directory, drive_ok, missing_images, file_map,
                    relinked_count, idx, pre_images, cand_images, outcomes, walked >>
    /\ UNCHANGED << portal_vars, prepare_vars >>

Next ==
    \/ \E dir \in DirectoryInputs : Execute(dir)
    \/ BuiltinFindMissingFiles
    \/ CollectMissing
    \/ \E drive \in BOOLEAN : WalkDirectory(drive)
    \/ RelinkImage
    \/ ReportResult

Spec == Init /\ [][Next]_vars

\* ------------------------------------------------- the Portal Creator
\* The number of coordinates a portal takes: "if len(coords) >= 4".
PortalLimit == 4

\* Coordinates are triples of integers that count tenths of a millionth, so
\* that the six decimals of the clipboard text are a rounding.
VertexCoords == { << 0, 0, 0 >>, << 14, 25, 36 >> }

\* matrix_world of the mesh objects: a translation.
MeshLocation == << 1000, 0, 20 >>

\* context.active_object: none, an object that is no mesh, a mesh in object
\* mode, and meshes in edit mode with none, one or two selected vertices.
\* selected holds v.co of the vertices with v.select.
NoActive ==
    [type |-> "NONE", mode |-> "OBJECT", location |-> << 0, 0, 0 >>, selected |-> {}]

ActiveObjects ==
    { NoActive,
      [type |-> "EMPTY", mode |-> "OBJECT", location |-> MeshLocation, selected |-> {}],
      [type |-> "MESH", mode |-> "OBJECT", location |-> MeshLocation,
       selected |-> { << 0, 0, 0 >> }] }
    \cup { [type |-> "MESH", mode |-> "EDIT", location |-> MeshLocation,
            selected |-> vs] : vs \in SUBSET VertexCoords }

\* obj.matrix_world @ v.co
WorldCoord(obj, co) == [i \in 1..3 |-> obj.location[i] + co[i]]

\* The ":.6f" of one component: rounded to millionths, halves to even.
Round6(n) ==
    LET q == n \div 10
        r == n % 10
    IN  IF r > 5 \/ (r = 5 /\ q % 2 = 1) THEN q + 1 ELSE q

\* f"{x:.6f}, {y:.6f}, {z:.6f}": one line of clipboard text.
FormatLine(coord) == << Round6(coord[1]), Round6(coord[2]), Round6(coord[3]) >>

\* The three checks of the active object, in the order of the code.
AddError(obj) ==
    IF obj.type # "MESH" THEN "select_a_mesh"
    ELSE IF obj.mode # "EDIT" THEN "enter_edit_mode"
    ELSE IF Cardinality(obj.selected) # 1 THEN "select_one_vertex"
    ELSE "ok"

\* PortalFull that lets a fifth coordinate in.
PortalFullAboveLimit(coords) == Len(coords) > PortalLimit

\* len(coords) >= 4
PortalFull(coords) == Len(coords) >= PortalLimit

\* What a portal operator records of itself.
PortalOp(name, obj, index) == [name |-> name, obj |-> obj, index |-> index]

\* NENOORE_OT_add_portal_vertex.execute
AddPortalVertex(obj) ==
    /\ portal_op' = PortalOp("add", obj, 0)
    /\ portal_before' = nenoore_portal_coords
    /\ IF AddError(obj) # "ok"
       THEN /\ portal_report' = [level |-> "ERROR", msg |-> AddError(obj), args |-> << >>]
            /\ portal_result' = "CANCELLED"
            /\ UNCHANGED nenoore_portal_coords
       ELSE IF PortalFull(nenoore_portal_coords)
       THEN /\ portal_report' = [level |-> "WARNING", msg |-> "already_4", args |-> << >>]
            /\ portal_result' = "CANCELLED"
            /\ UNCHANGED nenoore_portal_coords
       ELSE LET v == CHOOSE co \in obj.selected : TRUE
            IN  /\ nenoore_portal_coords' =
                     Append(nenoore_portal_coords, WorldCoord(obj, v))
                /\ portal_report' = [level |-> "INFO", msg |-> "stored_vertex",
                                     args |-> << Len(nenoore_portal_coords') >>]
                /\ portal_result' = "FINISHED"
    /\ UNCHANGED << clipboard, relink_vars, prepare_vars >>

\* NENOORE_OT_reset_portal.execute
ResetPortal ==
    /\ portal_op' = PortalOp("reset", NoActive, 0)
    /\ portal_before' = nenoore_portal_coords
    /\ nenoore_portal_coords' = << >>
    /\ portal_report' = [level |-> "INFO", msg |-> "cleared", args |-> << >>]
    /\ portal_result' = "FINISHED"
    /\ UNCHANGED << clipboard, relink_vars, prepare_vars >>

\* NENOORE_OT_copy_single_coord.execute, with its index property (0-based).
CopySingleCoord(index) ==
    /\ portal_op' = PortalOp("copy_single", NoActive, index)
    /\ portal_before' = nenoore_portal_coords
    /\ IF index < 0 \/ index >= Len(nenoore_portal_coords)
       THEN /\ portal_report' = [level |-> "ERROR", msg |-> "invalid_index", args |-> << >>]
            /\ portal_result' = "CANCELLED"
            /\ UNCHANGED clipboard
       ELSE /\ clipboard' = << FormatLine(nenoore_portal_coords[index + 1]) >>
            /\ portal_report' = [level |-> "INFO", msg |-> "copied", args |-> << >>]
            /\ portal_result' = "FINISHED"
    /\ UNCHANGED << nenoore_portal_coords, relink_vars, prepare_vars >>

\* NENOORE_OT_copy_all_coords.execute
CopyAllCoords ==
    /\ portal_op' = PortalOp("copy_all", NoActive, 0)
    /\ portal_before' = nenoore_portal_coords
    /\ IF Len(nenoore_portal_coords) # PortalLimit
       THEN /\ portal_report' = [level |-> "ERROR", msg |-> "need_4", args |-> << >>]
            /\ portal_result' = "CANCELLED"
            /\ UNCHANGED clipboard
       ELSE /\ clipboard' = [k \in 1..Len(nenoore_portal_coords) |->
                               FormatLine(nenoore_portal_coords[k])]
            /\ portal_report' = [level |-> "INFO", msg |-> "copied_all", args |-> << >>]
            /\ portal_result' = "FINISHED"
    /\ UNCHANGED << nenoore_portal_coords, relink_vars, prepare_vars >>

PortalInit ==
    /\ RelinkStart
    /\ PortalStart
    /\ PrepareStart(NoObjects)

PortalNext ==
    \/ \E obj \in ActiveObjects : AddPortalVertex(obj)
    \/ ResetPortal
    \/ \E index \in -1..PortalLimit : CopySingleCoord(index)
    \/ CopyAllCoords

SpecPortal == PortalInit /\ [][PortalNext]_vars

\* ---------------------------------------------- Prepare Vanilla Objects
\* The names of the objects a scene may hold, and the absent name: the
\* parent of an object without parent, the data of an object without data.
ObjectNames == { "a", "b", "c" }
NoName == ""

\* The chain of parents of object n reaches no object twice.
RECURSIVE ChainEnds(_, _, _)
ChainEnds(objs, n, fuel) ==
    IF objs[n].parent = NoName THEN TRUE
    ELSE IF fuel = 0 THEN FALSE
    ELSE ChainEnds(objs, objs[n].parent, fuel - 1)

\* The scenes execute may find: every object a mesh (with mesh data of some
\* other name) or an empty, selected or not, with or without a parent.
Scenes ==
    { objs \in [ObjectNames ->
                  [type : { "MESH", "EMPTY" }, parent : ObjectNames \cup { NoName },
                   data : { "Mesh", NoName }, select : BOOLEAN]] :
        \A n \in ObjectNames :
          /\ objs[n].data = NoName <=> objs[n].type = "EMPTY"
          /\ ChainEnds(objs, n, Cardinality(ObjectNames)) }

\* The orders in which context.selected_objects may list the selection.
Orders(names) ==
    { o \in [1..Cardinality(names) -> names] :
        \A i, j \in 1..Cardinality(names) : i # j => o[i] # o[j] }

Selected(objs) == { n \in DOMAIN objs : objs[n].select }

\* "while parent_to_remove.parent: parent_to_remove = parent_to_remove.parent"
RECURSIVE TopMost(_, _)
TopMost(objs, n) ==
    IF objs[n].parent = NoName THEN n ELSE TopMost(objs, objs[n].parent)

\* The walk of scene_obj's parent chain, scene_obj included, for an object
\* named parent_name.
RECURSIVE InHierarchy(_, _, _)
InHierarchy(objs, n, parent_name) ==
    IF n = NoName THEN FALSE
    ELSE IF n = parent_name THEN TRUE
    ELSE InHierarchy(objs, objs[n].parent, parent_name)

\* bpy.ops.object.parent_clear when it completes: it acts on every selected
\* object.
ParentClear(objs) ==
    [n \in DOMAIN objs |->
       IF objs[n].select THEN [objs[n] EXCEPT !.parent = NoName] ELSE objs[n]]

\* bpy.data.objects.remove(o, do_unlink=True) for every o in gone: the
\* objects leave the scene and their children are left without parent.
RemoveAll(objs, gone) ==
    [n \in DOMAIN objs \ gone |->
       IF objs[n].parent \in gone THEN [objs[n] EXCEPT !.parent = NoName]
       ELSE objs[n]]

\* The branch "if self.remove_parent and parent_to_remove" for the object
\* name whose top-most ancestor was parent_name: the objects collected, then
\* the removal by name of the top-most parent if it is still there.
RemoveHierarchy(objs, name, parent_name) ==
    LET objects_to_delete ==
            { n \in DOMAIN objs : InHierarchy(objs, n, parent_name) /\ n # name }
        left == RemoveAll(objs, objects_to_delete)
    IN  IF parent_name \in DOMAIN left
        THEN RemoveAll(left, { parent_name })
        ELSE left

\* execute is entered with the remove_parent property set to remove: the
\* selection is copied, in the order the host lists it, and an empty one is
\* refused.
PrepareExecute(remove) ==
    /\ prepare_pc = "idle"
    /\ sel' \in Orders(Selected(objects))
    /\ remove_parent' = remove
    /\ entry_objects' = objects
    /\ prepared' = 0
    /\ IF sel' = << >>
       THEN /\ prepare_report' = [level |-> "WARNING", msg |-> "select_one", args |-> << >>]
            /\ prepare_result' = "CANCELLED"
            /\ prepare_pc' = "idle"
            /\ sel_idx' = 0
       ELSE /\ prepare_report' = NoReport
            /\ prepare_result' = "RUNNING"
            /\ prepare_pc' = "loop"
            /\ sel_idx' = 1
    /\ UNCHANGED << objects, active_object, relink_vars, portal_vars >>

\* One iteration of "for obj in sel". Reading obj.type of an object that an
\* earlier iteration removed raises ReferenceError, which ends execute.
\* cleared tells whether parent_clear completed or raised.
PrepareObject(cleared) ==
    /\ prepare_pc = "loop"
    /\ sel_idx <= Len(sel)
    /\ LET obj == sel[sel_idx]
       IN  IF obj \notin DOMAIN objects
           THEN /\ cleared
                /\ prepare_result' = "RAISED"
                /\ prepare_pc' = "idle"
                /\ UNCHANGED << objects, active_object, sel_idx, prepared >>
           ELSE IF objects[obj].type # "MESH"
           THEN /\ cleared
                /\ sel_idx' = sel_idx + 1
                /\ UNCHANGED << objects, active_object, prepared,
                                prepare_result, prepare_pc >>
           ELSE LET parent_to_remove == TopMost(objects, obj)
                    selected == [objects EXCEPT ![obj].select = TRUE]
                    unparented == IF cleared THEN ParentClear(selected) ELSE selected
                    renamed == IF unparented[obj].data # NoName
                               THEN [unparented EXCEPT ![obj].data = obj]
                               ELSE unparented
                    after == IF remove_parent
                             THEN RemoveHierarchy(renamed, obj, parent_to_remove)
                             ELSE renamed
                IN  /\ objects' = after
                    /\ active_object' = IF obj \in DOMAIN after THEN obj ELSE NoName
                    /\ prepared' = prepared + 1
                    /\ sel_idx' = sel_idx + 1
                    /\ UNCHANGED << prepare_result, prepare_pc >>
    /\ UNCHANGED << remove_parent, sel, prepare_report, entry_objects,
                    relink_vars, portal_vars >>

\* After the loop: "Prepared N objects", FINISHED.
PrepareReport ==
    /\ prepare_pc = "loop"
    /\ sel_idx > Len(sel)
    /\ prepare_report' = [level |-> "INFO", msg |-> "prepared", args |-> << prepared >>]
    /\ prepare_result' = "FINISHED"
    /\ prepare_pc' = "idle"
    /\ UNCHANGED << objects, active_object, remove_parent, sel, sel_idx,
                    prepared, entry_objects, relink_vars, portal_vars >>

PrepareInit ==
    /\ RelinkStart
    /\ PortalStart
    /\ \E objs \in Scenes : PrepareStart(objs)

PrepareNext ==
    \/ \E remove \in BOOLEAN : PrepareExecute(remove)
    \/ \E cleared \in BOOLEAN : PrepareObject(cleared)
    \/ PrepareReport

SpecPrepare == PrepareInit /\ [][PrepareNext]_vars

\* ------------------------------------------------------------- properties
\* The invocation has returned.
RunOver == pc = "idle" /\ result # "NONE"

\* The file a stored path denotes once the host and the OS resolve it.
Denotes(path) == Normpath(Abspath(path))

\* The extension of a filename, lowercase, without its dot.
ExtensionOf(filename) ==
    LET ext == Splitext(Lower(filename))[2]
    IN  SubSeq(ext, 2, Len(ext))

\* The extensions a caller may list in allowed_extensions.
KnownExtensions == { << "p" >>, << "q" >> }

\* What os.walk listed in this invocation: per file its path, its directory
\* and its filename, as written and in lowercase.
Walked ==
    LET w == Walk(tree, Abspath(directory))
    IN  [k \in 1..Len(w) |->
           [path |-> Join(w[k].dirpath, w[k].filename),
            dirpath |-> w[k].dirpath,
            filename |-> w[k].filename,
            lower |-> Lower(w[k].filename)]]

\* The entries of the index.
Entries == { file_map[k] : k \in 1..Len(file_map) }

\* The path an image had when missing_images was built.
CandidatePath(o) == cand_images[o.image].filepath

\* C1 (as claimed): the index holds only files whose extension is in
\* allowed_extensions, no other file is chosen as a match, and with an empty
\* allowed_extensions no candidate is matched. The operator has no such
\* property (it declares directory alone), so the claim is stated for every
\* set of extensions the caller may mean.
C1_OnlyAllowedExtensionsIndexed ==
    walked =>
      \A allowed \in SUBSET KnownExtensions :
        /\ \A e \in Entries : ExtensionOf(Basename(e.path)) \in allowed
        /\ \A k \in 1..Len(outcomes) :
             outcomes[k].candidate # None =>
               ExtensionOf(Basename(outcomes[k].candidate)) \in allowed
        /\ allowed = {} => \A k \in 1..Len(outcomes) : outcomes[k].candidate = None

\* C1 (amended): the index built by a pass holds an entry for the lowercase
\* filename of every file the walk lists, whatever its extension; every
\* entry is a listed file under its own lowercase name, and every match
\* chosen for a reference is the path of an entry.
C1_EveryWalkedFileIndexed ==
    walked =>
      LET w == Walked
          entries == Entries
      IN  /\ \A k \in 1..Len(w) : \E e \in entries : e.key = w[k].lower
          /\ \A e \in entries :
               /\ \E k \in 1..Len(w) : e.path = w[k].path
               /\ e.key = Lower(Basename(e.path))
          /\ \A k \in 1..Len(outcomes) :
               outcomes[k].candidate # None =>
                 \E e \in entries : e.path = outcomes[k].candidate

\* C1 witness: the index holds files of two extensions and a reference was
\* matched to the one whose extension is q.
C1_Witness ==
    /\ walked
    /\ \E e \in Entries : ExtensionOf(Basename(e.path)) = << "p" >>
    /\ \E k \in 1..Len(outcomes) :
         /\ outcomes[k].candidate # None
         /\ ExtensionOf(Basename(outcomes[k].candidate)) = << "q" >>

\* C2: with the directory unset, absent or not a directory, execute returns
\* CANCELLED at once with an ERROR report that carries no counts: the
\* built-in finder is not called, nothing is walked or indexed and no image
\* path changes.
C2_InvalidDirectoryFailsAtOnce ==
    (result # "NONE" /\ (directory = Empty \/ ~IsDir(Abspath(directory)))) =>
      /\ pc = "idle"
      /\ result = "CANCELLED"
      /\ report.level = "ERROR"
      /\ report.args = << >>
      /\ ~walked
      /\ file_map = << >>
      /\ outcomes = << >>
      /\ images = pre_images

\* C2 witness: execute was cancelled for a directory that does not exist
\* although an image was missing and a file of its name lay under the root.
C2_Witness ==
    /\ result = "CANCELLED"
    /\ directory = NoSuchDir
    /\ \E i \in 1..Len(images) :
         /\ IsMissing(tree, images[i])
         /\ BuiltinFound(tree, Root, images[i]) # {}

RewrittenSinceEntry ==
    { i \in 1..Len(images) : images[i].filepath # pre_images[i].filepath }

\* The candidates the loop has rewritten so far.
RewrittenByLoop ==
    { k \in 1..Len(outcomes) :
        images[outcomes[k].image].filepath # CandidatePath(outcomes[k]) }

\* The candidates that are missing still.
StillMissing ==
    { k \in 1..Len(missing_images) : IsMissing(tree, images[missing_images[k]]) }

\* The report carries counts (it is the report after the loop).
HasCounts == report.msg \in { "relinked", "no_matches" }
ReportedRelinked == IF report.msg = "relinked" THEN report.args[1] ELSE 0
ReportedTotal == IF report.msg = "relinked" THEN report.args[2] ELSE report.args[1]

\* C4 (as claimed): after any pass the path of every embedded reference and
\* of every reference whose file existed when the pass began is unchanged.
C4_EmbeddedAndExistingUntouched ==
    \A i \in 1..Len(images) :
      (pre_images[i].packed \/ Exists(tree, Abspath(pre_images[i].filepath))) =>
        images[i].filepath = pre_images[i].filepath

C6_FirstDiscoveredWins ==
    walked =>
      LET w == Walked
      IN  \A k \in 1..Len(w) :
            LET same == { j \in 1..Len(w) : w[j].lower = w[k].lower }
                first == CHOOSE j \in same : \A l \in same : j <= l
                held == { i \in 1..Len(file_map) : file_map[i].key = w[k].lower }
            IN  /\ Cardinality(held) = 1
                /\ \A i \in held : file_map[i].path = w[first].path

\* C6 witness: the walk listed two files of one lowercase filename in
\* different directories and the index was built.
C6_Witness ==
    /\ walked
    /\ \E j, l \in 1..Len(Walked) :
         /\ j < l
         /\ Walked[j].dirpath # Walked[l].dirpath
         /\ Walked[j].filename # Walked[l].filename
         /\ Walked[j].lower = Walked[l].lower
         /\ MapGet(file_map, Walked[j].lower) = Walked[j].path

C9_UnmatchedIsNotFatal ==
    /\ \A k \in 1..Len(outcomes) :
         LET o == outcomes[k]
             base == Lower(Basename(CandidatePath(o)))
         IN  (\A e \in Entries :
                 /\ e.key # base
                 /\ Splitext(e.key)[1] # Splitext(base)[1]) =>
               /\ o.candidate = None
               /\ images[o.image] = cand_images[o.image]
               /\ ~o.counted
               /\ (RunOver => /\ HasCounts
                              /\ ReportedTotal - ReportedRelinked >= 1)
    /\ pc = "loop" =>
         /\ result = "RUNNING"
         /\ idx = Len(outcomes) + 1
         /\ \A k \in 1..Len(outcomes) : outcomes[k].image = missing_images[k]
    /\ (RunOver /\ walked) =>
         /\ result = "FINISHED"
         /\ report.level \in { "INFO", "WARNING" }
         /\ Len(outcomes) = Len(missing_images)
         /\ \A k \in 1..Len(outcomes) : outcomes[k].image = missing_images[k]

\* C9 witness: a pass ended in which a candidate without any match was
\* followed by a candidate that was relinked.
C9_Witness ==
    /\ RunOver
    /\ \E k, l \in 1..Len(outcomes) :
         /\ k < l
         /\ outcomes[k].candidate = None
         /\ outcomes[l].candidate # None

\* C10 (as claimed): when no reference is a candidate as execute begins (the
\* list is empty, or every reference has no path, is embedded or resolves to
\* an existing file), the pass rewrites no path and finishes without error
\* and without counts; so a second pass over a resolved set changes nothing.
C10_NoCandidateNoChange ==
    (RunOver /\ DirectoryError(directory) = "ok"
       /\ MissingImages(tree, pre_images) = << >>) =>
      /\ images = pre_images
      /\ result = "FINISHED"
      /\ report.msg = "no_missing"

\* The paths the index holds as values.
IndexValues == { file_map[k].path : k \in 1..Len(file_map) }

\* What the loop left in a matched candidate: the "//" form of the matched
\* path relative to the .blend directory when bpy.path.relpath can express
\* it, the matched path itself otherwise; either way it denotes that file.
WrittenAsMatched(o) ==
    /\ o.candidate \in IndexValues
    /\ images[o.image].filepath =
         IF drive_ok
         THEN << SEP, SEP >> \o OsRelpath(o.candidate, BlendDir)
         ELSE o.candidate
    /\ Denotes(images[o.image].filepath) = o.candidate

C11_MatchedState ==
    /\ \A k \in 1..Len(outcomes) :
         LET o == outcomes[k]
         IN  IF o.candidate # None
             THEN WrittenAsMatched(o)
             ELSE images[o.image].filepath = CandidatePath(o)
    /\ walked =>
         \A i \in 1..Len(images) :
           images[i].filepath # cand_images[i].filepath =>
             /\ \E k \in 1..Len(outcomes) : outcomes[k].image = i
             /\ Denotes(images[i].filepath) \in IndexValues

C14_IndexOfThisWalk ==
    IF walked
    THEN LET fresh == BuildFileMap(Walk(tree, Abspath(directory)), << >>)
         IN  /\ file_map = fresh
             /\ \A k \in 1..Len(outcomes) :
                  outcomes[k].candidate =
                    FindCandidate(fresh, outcomes[k].missing_filename).path
    ELSE file_map = << >> /\ outcomes = << >>

\* The step part of C14: no step of the matching loop writes the index; it
\* is written by the walk, once, and discarded when the next invocation
\* begins.
C14_IndexStep ==
    /\ pc = "loop" => file_map' = file_map
    /\ file_map' # file_map =>
         \/ pc = "walk" /\ ~walked /\ walked'
         \/ pc = "idle" /\ file_map' = << >>

\* C14: the index is built once per pass, by the walk, and is not modified
\* while references are matched and rewritten; it is not kept between
\* invocations, so the matches of an invocation are those of the index
\* built from the tree as walked under that invocation's directory.
C14_IndexBuiltOncePerPass ==
    /\ []C14_IndexOfThisWalk
    /\ [][C14_IndexStep]_vars

\* C14 witness: a pass over the sub-directory ended, with a candidate
\* processed against an index that holds files of the sub-directory alone,
\* after an earlier pass over the root had matched a reference to a file
\* that lies in the root itself.
C14_Witness ==
    /\ RunOver
    /\ walked
    /\ directory = SubDir
    /\ outcomes # << >>
    /\ file_map # << >>
    /\ \A k \in 1..Len(file_map) : StartsWith(file_map[k].path, SubDir \o << SEP >>)
    /\ \E i \in 1..Len(pre_images) :
         Denotes(pre_images[i].filepath) = Join(Root, NameLowerP)

\* C15: the stored portal list has between 0 and 4 entries; an Add with 4
\* stored, or with no mesh, outside edit mode or without exactly one
\* selected vertex, is cancelled and leaves the list as it was; a finished
\* Add appended exactly one entry, the world coordinate of the selected
\* vertex; Reset leaves the list empty; the copy operators leave the list
\* as it was, and Copy All finishes exactly when 4 entries are stored.
C15_PortalListBounded ==
    /\ Len(nenoore_portal_coords) \in 0..4
    /\ portal_op.name = "add" =>
         /\ (Len(portal_before) >= 4 \/ AddError(portal_op.obj) # "ok") =>
              /\ portal_result = "CANCELLED"
              /\ nenoore_portal_coords = portal_before
         /\ portal_result = "CANCELLED" => nenoore_portal_coords = portal_before
         /\ portal_result = "FINISHED" =>
              /\ Len(nenoore_portal_coords) = Len(portal_before) + 1
              /\ SubSeq(nenoore_portal_coords, 1, Len(portal_before)) = portal_before
              /\ \E co \in portal_op.obj.selected :
                   nenoore_portal_coords[Len(nenoore_portal_coords)] =
                     WorldCoord(portal_op.obj, co)
         /\ portal_result \in { "CANCELLED", "FINISHED" }
    /\ portal_op.name = "reset" =>
         /\ nenoore_portal_coords = << >>
         /\ portal_result = "FINISHED"
    /\ portal_op.name \in { "copy_single", "copy_all" } =>
         nenoore_portal_coords = portal_before
    /\ portal_op.name = "copy_all" =>
         /\ portal_result = "FINISHED" <=> Len(nenoore_portal_coords) = 4
         /\ portal_result = "FINISHED" => Len(clipboard) = 4

\* C15 witness: an Add with one vertex selected in edit mode was cancelled
\* because 4 coordinates were stored, and the list is as it was.
C15_Witness ==
    /\ portal_op.name = "add"
    /\ AddError(portal_op.obj) = "ok"
    /\ Len(portal_before) = 4
    /\ portal_result = "CANCELLED"
    /\ portal_report.level = "WARNING"
    /\ nenoore_portal_coords = portal_before

\* The selected mesh objects of a scene.
SelectedMeshes(objs) ==
    { n \in DOMAIN objs : objs[n].select /\ objs[n].type = "MESH" }

\* C16 (as claimed): when Prepare Vanilla Objects with remove_parent has run
\* over a selection, it has finished; every mesh object that was selected is
\* still in the scene, without parent; for those that had a parent, every
\* object of the hierarchy of their top-most ancestor, other than the
\* selected meshes, is gone; and the reported count is the number of
\* selected mesh objects.
C16_PreparedMeshesKept ==
    (prepare_pc = "idle" /\ remove_parent
       /\ prepare_result \in { "FINISHED", "RAISED" }) =>
      /\ prepare_result = "FINISHED"
      /\ prepare_report.args = << Cardinality(SelectedMeshes(entry_objects)) >>
      /\ \A n \in SelectedMeshes(entry_objects) :
           /\ n \in DOMAIN objects
           /\ objects[n].parent = NoName
           /\ entry_objects[n].parent # NoName =>
                \A m \in DOMAIN entry_objects \ SelectedMeshes(entry_objects) :
                  InHierarchy(entry_objects, m, TopMost(entry_objects, n)) =>
                    m \notin DOMAIN objects

====
